---- MODULE Spec2Model ----
(***************************************************************************)
(* TensorVis/coords.py: the coordinate and delay transforms                *)
(*   equatorial_to_topocentric, topocentric_to_az_za, topocentric_to_delay,*)
(*   eq_to_az_za, az_za_to_delay.                                          *)
(*                                                                         *)
(* The transforms are modelled in exact real arithmetic on the numbers     *)
(*        (n/d) * sqrt(r) * C^(-e)                                         *)
(* (n, d coprime integers, d > 0, r squarefree, C the speed of light),     *)
(* which is closed under everything the code computes when the input       *)
(* angles have rational sine and cosine.  float64 rounding is not          *)
(* modelled.  An angle is the point (cos, sin) of the unit circle, i.e.    *)
(* its value modulo 2*pi; asin, acos and atan2 return their principal      *)
(* values, so asin(sin(x)) is x only for x in [-pi/2, pi/2].               *)
(***************************************************************************)
EXTENDS Integers, Sequences, FiniteSets, TLC

(***************************************************************************)
(* Numbers                                                                 *)
(***************************************************************************)
Abs(i) == IF i < 0 THEN -i ELSE i

RECURSIVE GCD(_, _)
GCD(a, b) == IF b = 0 THEN a ELSE GCD(b, a % b)

\* The integer square root of n >= 0: the largest r of lo..hi with r*r <= n
\* (lo*lo <= n), by bisection; 46340 is the largest root of a 32-bit square.
RECURSIVE IsqrtIn(_, _, _)
IsqrtIn(n, lo, hi) ==
    IF lo = hi THEN lo
    ELSE LET mid == (lo + hi + 1) \div 2
         IN  IF mid * mid <= n THEN IsqrtIn(n, mid, hi)
                               ELSE IsqrtIn(n, lo, mid - 1)
Isqrt(n) == IsqrtIn(n, 0, IF n < 46340 THEN n ELSE 46340)

\* n = SqPart(n)^2 * SqFree(n) with SqFree(n) squarefree (n >= 1).
SqPart(n) ==
    LET S == {a \in 1..Isqrt(n) : n % (a * a) = 0}
    IN  CHOOSE a \in S : \A b \in S : b <= a
SqFree(n) == n \div (SqPart(n) * SqPart(n))

\* What a float holds when the real result does not exist (0/0, sqrt or asin
\* outside the domain): tf yields nan, or +-inf and then nan, and raises nothing.
NaN == [n |-> 0, d |-> 0, r |-> 0, e |-> 0]
IsNaN(x) == x.d = 0

\* A real this representation cannot hold (a sum of unlike surds).  No
\* reachable state holds one: see Representable.
Irr == [n |-> 0, d |-> 0, r |-> 1, e |-> 0]
IsIrr(x) == x.d = 0 /\ x.r = 1

Zero == [n |-> 0, d |-> 1, r |-> 1, e |-> 0]

\* (n/d) * sqrt(r) * C^(-e) in lowest terms, d /= 0.
Norm(n, d, r, e) ==
    IF n = 0 THEN Zero
    ELSE LET g == GCD(Abs(n), Abs(d))
             s == IF d < 0 THEN -1 ELSE 1
         IN  [n |-> s * (n \div g), d |-> s * (d \div g), r |-> r, e |-> e]

Rat(n, d) == Norm(n, d, 1, 0)
Int2Num(i) == Rat(i, 1)
One == Int2Num(1)

Neg(x) == IF IsNaN(x) THEN x ELSE [x EXCEPT !.n = -x.n]

\* The product, cross-reduced before multiplying.
Mul(x, y) ==
    IF IsNaN(x) THEN x
    ELSE IF IsNaN(y) THEN y
    ELSE IF x.n = 0 \/ y.n = 0 THEN Zero
    ELSE LET g1 == GCD(Abs(x.n), y.d)
             g2 == GCD(Abs(y.n), x.d)
             n0 == (x.n \div g1) * (y.n \div g2)
             d0 == (x.d \div g2) * (y.d \div g1)
             g  == GCD(x.r, y.r)     \* sqrt(x.r) * sqrt(y.r) = g * sqrt(rest)
             g3 == GCD(g, d0)
         IN  [n |-> n0 * (g \div g3), d |-> d0 \div g3,
              r |-> (x.r \div g) * (y.r \div g), e |-> x.e + y.e]

\* 1/x; 1/0 is not a real.
Inv(x) ==
    IF IsNaN(x) THEN x
    ELSE IF x.n = 0 THEN NaN
    ELSE LET g == GCD(x.d, x.r)
             s == IF x.n < 0 THEN -1 ELSE 1
         IN  [n |-> s * (x.d \div g), d |-> Abs(x.n) * (x.r \div g),
              r |-> x.r, e |-> -x.e]

Div(x, y) == Mul(x, Inv(y))

Add(x, y) ==
    IF IsNaN(x) THEN x
    ELSE IF IsNaN(y) THEN y
    ELSE IF x.n = 0 THEN y
    ELSE IF y.n = 0 THEN x
    ELSE IF x.r # y.r \/ x.e # y.e THEN Irr
    ELSE LET g == GCD(x.d, y.d)
         IN  Norm(x.n * (y.d \div g) + y.n * (x.d \div g),
                  (x.d \div g) * y.d, x.r, x.e)

Sub(x, y) == Add(x, Neg(y))

\* x ** 2.
Sq(x) == Mul(x, x)

\* sqrt of a rational: sqrt(n/d) = (a/(c*f)) * sqrt(b*f) for n = a^2 b,
\* d = c^2 f.  A negative argument gives nan.
Sqrt(x) ==
    IF IsNaN(x) THEN x
    ELSE IF x.n = 0 THEN Zero
    ELSE IF x.n < 0 THEN NaN
    ELSE IF x.r # 1 \/ x.e % 2 # 0 THEN Irr
    ELSE LET a == SqPart(x.n)
             b == SqFree(x.n)
             c == SqPart(x.d)
             f == SqFree(x.d)
         IN  [n |-> a, d |-> c * f, r |-> b * f, e |-> x.e \div 2]

\* x < y, for rationals.
Lt(x, y) == ~IsNaN(x) /\ ~IsNaN(y) /\ x.n * y.d < y.n * x.d

\* tf.math.sign of a number: -1, 0 or 1.
SignNum(x) == IF x.n < 0 THEN -1 ELSE IF x.n > 0 THEN 1 ELSE 0

(***************************************************************************)
(* Angles: the point (cos, sin) of the unit circle                         *)
(***************************************************************************)
Angle(c, s) == [c |-> c, s |-> s]
IsNaNAngle(a) == IsNaN(a.c) \/ IsNaN(a.s)
ZeroAngle == Angle(One, Zero)

\* tf.math.sin, tf.math.cos
sin(a) == a.s
cos(a) == a.c

\* tf.math.asin: the angle of [-pi/2, pi/2] with that sine; nan outside [-1, 1].
asin(v) ==
    LET c == Sqrt(Sub(One, Sq(v)))
    IN  IF IsNaN(c) THEN Angle(c, c) ELSE Angle(c, v)

\* tf.math.acos: the angle of [0, pi] with that cosine; nan outside [-1, 1].
acos(v) ==
    LET s == Sqrt(Sub(One, Sq(v)))
    IN  IF IsNaN(s) THEN Angle(s, s) ELSE Angle(v, s)

\* tf.math.atan2(y, x); atan2(0, 0) = 0.
atan2(y, x) ==
    LET r == Sqrt(Add(Sq(x), Sq(y)))
    IN  IF IsNaN(r) THEN Angle(r, r)
        ELSE IF r.n = 0 THEN ZeroAngle
        ELSE Angle(Div(x, r), Div(y, r))

\* -a
NegAngle(a) == Angle(a.c, Neg(a.s))

\* a - b
SubAngle(a, b) ==
    Angle(Add(Mul(a.c, b.c), Mul(a.s, b.s)), Sub(Mul(a.s, b.c), Mul(a.c, b.s)))

\* a / 2., for the principal value of a in (-pi, pi].
HalfAngle(a) ==
    LET s == Sqrt(Div(Sub(One, a.c), Int2Num(2)))
    IN  Angle(Sqrt(Div(Add(One, a.c), Int2Num(2))),
              IF a.s.n < 0 THEN Neg(s) ELSE s)

\* tf.math.sign of the principal value of a in (-pi, pi]: -1., 0. or 1.
sign(a) ==
    IF IsNaNAngle(a) THEN (IF IsNaN(a.c) THEN a.c ELSE a.s)
    ELSE IF a.s.n # 0 THEN Int2Num(SignNum(a.s))
    ELSE IF a.c.n > 0 THEN Zero ELSE One

\* sg * a for sg one of -1., 0., 1. (what sign returns); nan * a = 0. * nan = nan.
MulAngle(sg, a) ==
    IF IsNaN(sg) THEN Angle(sg, sg)
    ELSE IF IsNaNAngle(a) THEN a
    ELSE IF sg.n = 0 THEN ZeroAngle
    ELSE IF sg = One THEN a
    ELSE IF sg = Neg(One) THEN NegAngle(a)
    ELSE Angle(Irr, Irr)

(***************************************************************************)
(* Tensors: a shape and a value for every index tuple (1-based)            *)
(***************************************************************************)
Max(a, b) == IF a > b THEN a ELSE b

RECURSIVE MaxOf(_)
MaxOf(s) == IF s = << >> THEN 0 ELSE Max(Head(s), MaxOf(Tail(s)))

Idx(shape) ==
    {i \in [1..Len(shape) -> 1..MaxOf(shape)] :
        \A j \in 1..Len(shape) : i[j] <= shape[j]}

Tensor(shape, val) == [shape |-> shape, val |-> val]

\* A Python scalar or 0-d tensor, and a 1-d tensor.
Scalar(v) == Tensor(<< >>, [i \in Idx(<< >>) |-> v])
Vec(seq) == Tensor(<<Len(seq)>>, [i \in Idx(<<Len(seq)>>) |-> seq[i[1]]])

\* An elementwise unary operation.
Map(F(_), t) == Tensor(t.shape, [i \in DOMAIN t.val |-> F(t.val[i])])

\* numpy broadcasting of two shapes, aligned on the trailing axes.
BDim(s, rank, j) == IF j > rank - Len(s) THEN s[j - (rank - Len(s))] ELSE 1
BShape(s1, s2) ==
    LET rank == Max(Len(s1), Len(s2))
    IN  [j \in 1..rank |-> Max(BDim(s1, rank, j), BDim(s2, rank, j))]
BIdx(s, i) ==
    [j \in 1..Len(s) |-> IF s[j] = 1 THEN 1 ELSE i[j + Len(i) - Len(s)]]
Broadcastable(s1, s2) ==
    LET rank == Max(Len(s1), Len(s2))
    IN  \A j \in 1..rank :
           \/ BDim(s1, rank, j) = BDim(s2, rank, j)
           \/ BDim(s1, rank, j) = 1
           \/ BDim(s2, rank, j) = 1

\* An elementwise binary operation, broadcast.
Map2(F(_, _), a, b) ==
    LET sh == BShape(a.shape, b.shape)
    IN  Tensor(sh, [i \in Idx(sh) |->
                      F(a.val[BIdx(a.shape, i)], b.val[BIdx(b.shape, i)])])

\* tf.stack of tensors of one shape, along a new axis 0.
stack(ts) ==
    LET sh == <<Len(ts)>> \o ts[1].shape
    IN  Tensor(sh, [i \in Idx(sh) |-> ts[i[1]].val[Tail(i)]])

\* t[k] (k 0-based, as in Python).
GetItem(t, k) ==
    Tensor(Tail(t.shape), [i \in Idx(Tail(t.shape)) |-> t.val[<<k + 1>> \o i]])

\* s with the entry at 0-based position ax removed / with v inserted there.
DropAt(s, ax) == SubSeq(s, 1, ax) \o SubSeq(s, ax + 2, Len(s))
InsertAt(s, ax, v) == SubSeq(s, 1, ax) \o <<v>> \o SubSeq(s, ax + 1, Len(s))

RECURSIVE SumTo(_, _)
SumTo(f, k) == IF k = 0 THEN Zero ELSE Add(SumTo(f, k - 1), f[k])

\* tf.tensordot(a, b, axes=[[axA], [axB]]): contracts axis axA of a with axis
\* axB of b; the result has a's remaining axes, then b's remaining axes.
tensordot(a, b, axA, axB) ==
    LET sa == DropAt(a.shape, axA)
        sb == DropAt(b.shape, axB)
        sh == sa \o sb
        K  == a.shape[axA + 1]
    IN  Tensor(sh, [i \in Idx(sh) |->
           SumTo([k \in 1..K |->
                    Mul(a.val[InsertAt(SubSeq(i, 1, Len(sa)), axA, k)],
                        b.val[InsertAt(SubSeq(i, Len(sa) + 1, Len(i)), axB, k)])],
                 K)])

\* tf.zeros_like, tf.ones_like
zeros_like(t) == Tensor(t.shape, [i \in DOMAIN t.val |-> Zero])
ones_like(t) == Tensor(t.shape, [i \in DOMAIN t.val |-> One])

\* tf.where(cond, a, b), broadcast; cond is a tensor of booleans.
where(cond, a, b) ==
    LET sh == BShape(cond.shape, BShape(a.shape, b.shape))
    IN  Tensor(sh, [i \in Idx(sh) |->
           IF cond.val[BIdx(cond.shape, i)] THEN a.val[BIdx(a.shape, i)]
                                            ELSE b.val[BIdx(b.shape, i)]])

(***************************************************************************)
(* Module constants (coords.py lines 13-14)                                *)
(***************************************************************************)
\* C = 299792458. m/s: kept as the symbol C^1; CValue is its value, which every
\* numerator and denominator of the model stays below (see Representable), so
\* that no number hides a factor C and the representation is unique.
CValue == 299792458
C == Scalar([n |-> 1, d |-> 1, r |-> 1, e |-> -1])

\* PI = np.pi
PI == Scalar(Angle(Neg(One), Zero))

(***************************************************************************)
(* The transforms                                                          *)
(***************************************************************************)
TNeg(t) == Map(Neg, t)
TMul(a, b) == Map2(Mul, a, b)
TAdd(a, b) == Map2(Add, a, b)
TSub(a, b) == Map2(Sub, a, b)
TDiv(a, b) == Map2(Div, a, b)
TSin(t) == Map(sin, t)
TCos(t) == Map(cos, t)

\* Mutant: the rows of the projection in the order l, m, n of the name.
equatorial_to_topocentric_lmn(ra, dec, lst, latitude) ==
    LET eq_coords == stack(<< TMul(TCos(ra), TCos(dec)),
                              TMul(TCos(dec), TSin(ra)),
                              TSin(dec) >>)
        topo_coords == stack(<<
            stack(<< TMul(TNeg(TSin(latitude)), TCos(lst)),
                     TMul(TNeg(TSin(latitude)), TSin(lst)),
                     TMul(TCos(latitude), ones_like(lst)) >>),
            stack(<< TNeg(TSin(lst)),
                     TCos(lst),
                     zeros_like(lst) >>),
            stack(<< TMul(TCos(latitude), TCos(lst)),
                     TMul(TCos(latitude), TSin(lst)),
                     TMul(TSin(latitude), ones_like(lst)) >>) >>)
    IN  tensordot(topo_coords, eq_coords, 1, 0)

\* Mutant: a sign slip in the l row, +sin(latitude) * sin(lst).
equatorial_to_topocentric_slip(ra, dec, lst, latitude) ==
    LET eq_coords == stack(<< TMul(TCos(ra), TCos(dec)),
                              TMul(TCos(dec), TSin(ra)),
                              TSin(dec) >>)
        topo_coords == stack(<<
            stack(<< TNeg(TSin(lst)),
                     TCos(lst),
                     zeros_like(lst) >>),
            stack(<< TMul(TNeg(TSin(latitude)), TCos(lst)),
                     TMul(TSin(latitude), TSin(lst)),
                     TMul(TCos(latitude), ones_like(lst)) >>),
            stack(<< TMul(TCos(latitude), TCos(lst)),
                     TMul(TCos(latitude), TSin(lst)),
                     TMul(TSin(latitude), ones_like(lst)) >>) >>)
    IN  tensordot(topo_coords, eq_coords, 1, 0)

\* equatorial_to_topocentric(ra, dec, lst, latitude)
equatorial_to_topocentric(ra, dec, lst, latitude) ==
    LET eq_coords == stack(<< TMul(TCos(ra), TCos(dec)),
                              TMul(TCos(dec), TSin(ra)),
                              TSin(dec) >>)
        topo_coords == stack(<<
            stack(<< TNeg(TSin(lst)),
                     TCos(lst),
                     zeros_like(lst) >>),
            stack(<< TMul(TNeg(TSin(latitude)), TCos(lst)),
                     TMul(TNeg(TSin(latitude)), TSin(lst)),
                     TMul(TCos(latitude), ones_like(lst)) >>),
            stack(<< TMul(TCos(latitude), TCos(lst)),
                     TMul(TCos(latitude), TSin(lst)),
                     TMul(TSin(latitude), ones_like(lst)) >>) >>)
    IN  tensordot(topo_coords, eq_coords, 1, 0)

\* Mutant: az = atan2(m, l), the sign dropped.
topocentric_to_az_za_posaz(l, m) ==
    LET lsqr == TAdd(Map(Sq, l), Map(Sq, m))
        n == where(Map(LAMBDA v : Lt(v, One), lsqr),
                   Map(Sqrt, TSub(Scalar(One), lsqr)),
                   Scalar(Zero))
        az == Map2(atan2, m, l)
        za == Map2(SubAngle, Map(HalfAngle, PI), Map(asin, n))
    IN  <<az, za>>

\* Mutant: the branches of tf.where exchanged.
topocentric_to_az_za_swapped(l, m) ==
    LET lsqr == TAdd(Map(Sq, l), Map(Sq, m))
        n == where(Map(LAMBDA v : Lt(v, One), lsqr),
                   Scalar(Zero),
                   Map(Sqrt, TSub(Scalar(One), lsqr)))
        az == Map(NegAngle, Map2(atan2, m, l))
        za == Map2(SubAngle, Map(HalfAngle, PI), Map(asin, n))
    IN  <<az, za>>

\* Mutant: no clip, n = sqrt(1 - lsqr) everywhere.
topocentric_to_az_za_noclip(l, m) ==
    LET lsqr == TAdd(Map(Sq, l), Map(Sq, m))
        n == Map(Sqrt, TSub(Scalar(One), lsqr))
        az == Map(NegAngle, Map2(atan2, m, l))
        za == Map2(SubAngle, Map(HalfAngle, PI), Map(asin, n))
    IN  <<az, za>>

\* topocentric_to_az_za(l, m): returns (az, za)
topocentric_to_az_za(l, m) ==
    LET lsqr == TAdd(Map(Sq, l), Map(Sq, m))
        n == where(Map(LAMBDA v : Lt(v, One), lsqr),
                   Map(Sqrt, TSub(Scalar(One), lsqr)),
                   Scalar(Zero))
        az == Map(NegAngle, Map2(atan2, m, l))
        za == Map2(SubAngle, Map(HalfAngle, PI), Map(asin, n))
    IN  <<az, za>>

\* Mutant: the division by C left out (a path length, not a delay).
topocentric_to_delay_noC(topo_cosines, antpos) ==
    tensordot(antpos, topo_cosines, 1, 0)

\* topocentric_to_delay(topo_cosines, antpos)
topocentric_to_delay(topo_cosines, antpos) ==
    TDiv(tensordot(antpos, topo_cosines, 1, 0), C)

\* eq_to_az_za(ra, dec, lst, latitude): returns (za, az)
eq_to_az_za(ra, dec, lst, latitude) ==
    LET lat == latitude
        sin_alt == TAdd(TMul(TSin(dec), TSin(lat)),
                        TMul(TMul(TCos(dec), TCos(lat)),
                             TCos(Map2(SubAngle, lst, ra))))
        alt == Map(asin, sin_alt)
        sin_az == TDiv(TMul(TSin(Map2(SubAngle, ra, lst)), TCos(dec)),
                       TCos(alt))
        cos_az == TDiv(TSub(TSin(dec), TMul(TSin(lat), sin_alt)),
                       TMul(TCos(lat), TCos(alt)))
    IN  << Map2(SubAngle, Map(HalfAngle, PI), alt),
           Map2(MulAngle, Map(sign, Map(asin, sin_az)), Map(acos, cos_az)) >>

\* Mutant: the zenith angle used where the altitude is meant.
az_za_to_delay_za(az, za, antpos) ==
    LET alt == za
        coord_proj == stack(<< TMul(TNeg(TSin(az)), TCos(alt)),
                               TMul(TCos(az), TCos(alt)),
                               TSin(alt) >>)
    IN  TDiv(tensordot(antpos, coord_proj, 1, 0), C)

\* az_za_to_delay(az, za, antpos)
az_za_to_delay(az, za, antpos) ==
    LET alt == Map2(SubAngle, Map(HalfAngle, PI), za)
        coord_proj == stack(<< TMul(TNeg(TSin(az)), TCos(alt)),
                               TMul(TCos(az), TCos(alt)),
                               TSin(alt) >>)
    IN  TDiv(tensordot(antpos, coord_proj, 1, 0), C)

(***************************************************************************)
(* The inputs a caller passes                                              *)
(***************************************************************************)
\* Bounds: the longest source list, LST list and antenna list.
MaxSources == 2
MaxTimes == 2
MaxAnts == 2

\* Angles with rational sine and cosine.
Deg0 == ZeroAngle
Deg90 == Angle(Zero, One)
Deg180 == Angle(Neg(One), Zero)
Deg37 == Angle(Rat(4, 5), Rat(3, 5))
Deg53 == Angle(Rat(3, 5), Rat(4, 5))

\* A catalogue of sources (ra, dec), a schedule of LSTs, the latitudes of a
\* southern site and of the pole, antenna positions in metres (14.6 m
\* spacing, one antenna raised) and the scales applied to a layout.
Catalogue ==
    << [ra |-> Deg0, dec |-> NegAngle(Deg37)],
       [ra |-> Deg37, dec |-> Deg0],
       [ra |-> Deg0, dec |-> NegAngle(Deg53)],
       [ra |-> Deg90, dec |-> Deg53],
       [ra |-> Deg180, dec |-> NegAngle(Deg37)],
       [ra |-> Deg37, dec |-> Deg90] >>
Schedule == << Deg0, Deg37, Deg90 >>
Latitudes == { NegAngle(Deg37), Deg90 }
Antennas ==
    << <<Zero, Zero, Zero>>,
       <<Rat(73, 5), Zero, Zero>>,
       <<Zero, Rat(73, 5), Rat(3, 2)>> >>
Scales == << One, Rat(-3, 2), Int2Num(2) >>
\* Cosines (l, m) a caller may pass to topocentric_to_az_za directly.
RawCosines ==
    << [l |-> Zero, m |-> Zero],
       [l |-> Rat(3, 5), m |-> Rat(4, 5)],
       [l |-> One, m |-> One],
       [l |-> Int2Num(-2), m |-> Zero],
       [l |-> Rat(2, 3), m |-> Rat(-2, 3)],
       [l |-> Zero, m |-> Neg(One)] >>

\* n consecutive entries of seq from start on, cyclically.
Window(seq, start, n) ==
    [i \in 1..n |-> seq[((start + i - 2) % Len(seq)) + 1]]

\* antpos: a tensor of shape (Nants, 3)
AntPos(rows) ==
    Tensor(<<Len(rows), 3>>, [i \in Idx(<<Len(rows), 3>>) |-> rows[i[1]][i[2]]])

\* A result not computed yet / an argument not passed: the empty tensor.
Unset == Tensor(<<0>>, << >>)

(***************************************************************************)
(* State: the arguments of a session and the result of each transform      *)
(***************************************************************************)
VARIABLES
    ra, dec, lst, latitude,   \* the sky arguments (Unset in a session on raw cosines)
    raw,                      \* <<l, m>> passed directly, or <<Unset, Unset>>
    antpos, scale,            \* the antenna positions and the scale applied to them
    topo_cosines,             \* equatorial_to_topocentric's result
    az_za,                    \* topocentric_to_az_za's result <<az, za>>
    delay,                    \* topocentric_to_delay's result
    delay_az_za,              \* az_za_to_delay's result
    za_az                     \* eq_to_az_za's result <<za, az>>

vars == <<ra, dec, lst, latitude, raw, antpos, scale, topo_cosines, az_za, delay,
          delay_az_za, za_az>>

\* A layout: consecutive antennas, and the scale that goes with it.
InitAntennas ==
    \E n \in 1..MaxAnts, start \in 1..Len(Antennas) :
       /\ antpos = AntPos(Window(Antennas, start, n))
       /\ scale = Scalar(Scales[((start + n) % Len(Scales)) + 1])

InitResults ==
    /\ topo_cosines = Unset
    /\ az_za = <<Unset, Unset>>
    /\ delay = Unset
    /\ delay_az_za = Unset
    /\ za_az = <<Unset, Unset>>

InitSky ==
    /\ \E n \in 1..MaxSources, start \in 1..Len(Catalogue) :
          LET w == Window(Catalogue, start, n)
          IN  /\ ra = Vec([i \in 1..n |-> w[i].ra])
              /\ dec = Vec([i \in 1..n |-> w[i].dec])
    /\ \/ \E t \in 1..Len(Schedule) : lst = Scalar(Schedule[t])
       \/ \E n \in 1..MaxTimes, start \in 1..Len(Schedule) :
             lst = Vec(Window(Schedule, start, n))
    /\ \E lat \in Latitudes : latitude = Scalar(lat)
    /\ raw = <<Unset, Unset>>

InitRaw ==
    /\ ra = Unset /\ dec = Unset /\ lst = Unset /\ latitude = Unset
    /\ \E n \in 1..MaxSources, start \in 1..Len(RawCosines) :
          LET w == Window(RawCosines, start, n)
          IN  raw = << Vec([i \in 1..n |-> w[i].l]), Vec([i \in 1..n |-> w[i].m]) >>

Init == /\ InitSky \/ InitRaw
        /\ InitAntennas
        /\ InitResults

\* cosines = equatorial_to_topocentric(ra, dec, lst, latitude)
EquatorialToTopocentric ==
    /\ ra # Unset
    /\ topo_cosines = Unset
    /\ topo_cosines' = equatorial_to_topocentric(ra, dec, lst, latitude)
    /\ UNCHANGED <<ra, dec, lst, latitude, raw, antpos, scale, az_za, delay,
                   delay_az_za, za_az>>

\* az, za = topocentric_to_az_za(l, m), on raw cosines or with
\* m = cosines[0], l = cosines[1]
TopocentricToAzZa ==
    /\ az_za = <<Unset, Unset>>
    /\ \/ /\ raw # <<Unset, Unset>>
          /\ az_za' = topocentric_to_az_za(raw[1], raw[2])
       \/ /\ topo_cosines # Unset
          /\ az_za' = topocentric_to_az_za(GetItem(topo_cosines, 1),
                                           GetItem(topo_cosines, 0))
    /\ UNCHANGED <<ra, dec, lst, latitude, raw, antpos, scale, topo_cosines, delay,
                   delay_az_za, za_az>>

\* delay = topocentric_to_delay(cosines, scale * antpos)
TopocentricToDelay ==
    /\ topo_cosines # Unset
    /\ delay = Unset
    /\ delay' = topocentric_to_delay(topo_cosines, TMul(scale, antpos))
    /\ UNCHANGED <<ra, dec, lst, latitude, raw, antpos, scale, topo_cosines, az_za,
                   delay_az_za, za_az>>

\* delay = az_za_to_delay(az, za, scale * antpos)
AzZaToDelay ==
    /\ az_za # <<Unset, Unset>>
    /\ delay_az_za = Unset
    /\ delay_az_za' = az_za_to_delay(az_za[1], az_za[2], TMul(scale, antpos))
    /\ UNCHANGED <<ra, dec, lst, latitude, raw, antpos, scale, topo_cosines, az_za,
                   delay, za_az>>

\* za, az = eq_to_az_za(ra, dec, lst, latitude); lst and ra must broadcast
EqToAzZa ==
    /\ ra # Unset
    /\ Broadcastable(lst.shape, ra.shape)
    /\ za_az = <<Unset, Unset>>
    /\ za_az' = eq_to_az_za(ra, dec, lst, latitude)
    /\ UNCHANGED <<ra, dec, lst, latitude, raw, antpos, scale, topo_cosines, az_za,
                   delay, delay_az_za>>

Next ==
    \/ EquatorialToTopocentric
    \/ TopocentricToAzZa
    \/ TopocentricToDelay
    \/ AzZaToDelay
    \/ EqToAzZa

Spec == Init /\ [][Next]_vars

(***************************************************************************)
(* What the claims speak of                                                *)
(***************************************************************************)
Unset2 == <<Unset, Unset>>
OnRaw == raw # Unset2
KVal == scale.val[<< >>]
CNum == C.val[<< >>]
LatVal == latitude.val[<< >>]
Ants == 1..antpos.shape[1]
AntRow(a) == << antpos.val[<<a, 1>>], antpos.val[<<a, 2>>], antpos.val[<<a, 3>>] >>

\* The (time, source) or (source) indices of the cosines, and the cosines
\* (m, l, n) at one of them.
Sources == Idx(Tail(topo_cosines.shape))
Cosine(i) == << topo_cosines.val[<<1>> \o i], topo_cosines.val[<<2>> \o i],
                topo_cosines.val[<<3>> \o i] >>
Lsqr(l, m) == Add(Sq(l), Sq(m))

\* The arguments of the sky at a cosine index.
LstOf(i) == lst.val[SubSeq(i, 1, Len(lst.shape))]
RaOf(i) == ra.val[<<i[Len(i)]>>]
DecOf(i) == dec.val[<<i[Len(i)]>>]
IsZenith(i) == DecOf(i) = LatVal /\ RaOf(i) = LstOf(i)

\* The l and m topocentric_to_az_za was called on.
ArgL == IF OnRaw THEN raw[1] ELSE GetItem(topo_cosines, 1)
ArgM == IF OnRaw THEN raw[2] ELSE GetItem(topo_cosines, 0)

Dot3(u, v) == Add(Add(Mul(u[1], v[1]), Mul(u[2], v[2])), Mul(u[3], v[3]))

\* (-sin(az)cos(alt), cos(az)cos(alt), sin(alt)) with alt = pi/2 - za, at index i
Direction(i) ==
    LET az == az_za[1].val[i]
        za == az_za[2].val[i]
    IN  << Neg(Mul(az.s, za.s)), Mul(az.c, za.s), za.c >>

\* The unit vector of (ra, dec), and the rows m, l, n of P(lst, lat).
EqVec(a, d) == << Mul(a.c, d.c), Mul(d.c, a.s), d.s >>
ProjRows(t, lat) ==
    << << Neg(t.s), t.c, Zero >>,
       << Neg(Mul(lat.s, t.c)), Neg(Mul(lat.s, t.s)), lat.c >>,
       << Mul(lat.c, t.c), Mul(lat.c, t.s), lat.s >> >>

Finite(t) == \A i \in DOMAIN t.val : ~IsNaN(t.val[i])
FiniteAngles(t) == \A i \in DOMAIN t.val : ~IsNaNAngle(t.val[i])

\* Every number of the state is one the representation holds exactly, with
\* numerator and denominator below C.
NumOK(v) == ~IsIrr(v) /\ Abs(v.n) < CValue /\ v.d < CValue
NumsOK(t) == \A i \in DOMAIN t.val : NumOK(t.val[i])
AnglesOK(t) == \A i \in DOMAIN t.val : NumOK(t.val[i].c) /\ NumOK(t.val[i].s)
Representable ==
    /\ NumsOK(topo_cosines) /\ NumsOK(delay) /\ NumsOK(delay_az_za)
    /\ AnglesOK(az_za[1]) /\ AnglesOK(az_za[2])
    /\ AnglesOK(za_az[1]) /\ AnglesOK(za_az[2])

(***************************************************************************)
(* C1: for every source strictly above the horizon (n > 0), the vector     *)
(* rebuilt from az, za = topocentric_to_az_za(l, m) is the cosines         *)
(* (m, l, n), and az_za_to_delay on that az, za gives every antenna the    *)
(* delay topocentric_to_delay gives it.                                    *)
(***************************************************************************)
C1_RoundTrip ==
    (~OnRaw /\ az_za # Unset2) =>
        \A i \in Sources : Cosine(i)[3].n > 0 =>
            /\ Direction(i) = Cosine(i)
            /\ (delay # Unset /\ delay_az_za # Unset) =>
                  \A a \in Ants :
                     delay_az_za.val[<<a>> \o i] = delay.val[<<a>> \o i]

\* Both delays computed for a source above the horizon whose azimuth has an
\* irrational cosine, for two antennas.
C1_Witness ==
    /\ ~OnRaw /\ delay # Unset /\ delay_az_za # Unset
    /\ antpos.shape[1] >= 2
    /\ \E i \in Sources : /\ Cosine(i)[3].n > 0
                          /\ az_za[1].val[i].c.r # 1
                          /\ delay.val[<<2>> \o i].n # 0

(***************************************************************************)
(* C2 as stated: every source with n < 0 from equatorial_to_topocentric    *)
(* takes the clip branch of topocentric_to_az_za (l^2 + m^2 >= 1) and gets *)
(* za = pi/2.                                                              *)
(***************************************************************************)
C2_BelowHorizonClipped ==
    (~OnRaw /\ az_za # Unset2) =>
        \A i \in Sources : Cosine(i)[3].n < 0 =>
            /\ ~Lt(Lsqr(Cosine(i)[2], Cosine(i)[1]), One)
            /\ az_za[2].val[i] = Deg90

(***************************************************************************)
(* C2 amended: a source with n < 0 has l^2 + m^2 = 1 - n^2 < 1, so the     *)
(* clip branch is not taken and za is the zenith angle of the mirrored     *)
(* source (l, m, -n): cos(za) = -n, sin(za) = sqrt(l^2 + m^2) >= 0;        *)
(* l^2 + m^2 >= 1 holds exactly for the sources with n = 0.                *)
(***************************************************************************)
C2_BelowHorizonMirrored ==
    (~OnRaw /\ az_za # Unset2) =>
        \A i \in Sources :
           LET lsqr == Lsqr(Cosine(i)[2], Cosine(i)[1])
               za == az_za[2].val[i]
           IN  /\ Cosine(i)[3].n < 0 =>
                    /\ Lt(lsqr, One)
                    /\ za.c = Neg(Cosine(i)[3])
                    /\ za.s.n >= 0 /\ Sq(za.s) = lsqr
               /\ ~Lt(lsqr, One) <=> Cosine(i)[3].n = 0

C2_Witness ==
    /\ ~OnRaw /\ az_za # Unset2
    /\ \E i \in Sources : Cosine(i)[3].n < 0 /\ az_za[2].val[i] # Deg90

(***************************************************************************)
(* C3: topocentric_to_delay returns shape (..., Nants) for cosines of      *)
(* shape (3, ...), and az_za_to_delay returns shape (..., Nants) for az,   *)
(* za of shape (...): the antenna axis is the last one.                    *)
(***************************************************************************)
C3_DelayShape ==
    /\ delay # Unset =>
          delay.shape = Tail(topo_cosines.shape) \o <<antpos.shape[1]>>
    /\ delay_az_za # Unset =>
          delay_az_za.shape = az_za[1].shape \o <<antpos.shape[1]>>

(***************************************************************************)
(* C4: the cosines have shape (3, T, N), or (3, N) for a scalar lst, and   *)
(* out[c, t, s] is row c of P(lst[t], latitude) times e(ra[s], dec[s]),    *)
(* the rows in the order m, l, n.                                          *)
(***************************************************************************)
C4_OuterProduct ==
    topo_cosines # Unset =>
        /\ topo_cosines.shape = <<3>> \o lst.shape \o ra.shape
        /\ \A i \in Idx(lst.shape \o ra.shape), c \in 1..3 :
              topo_cosines.val[<<c>> \o i] =
                 Dot3(ProjRows(LstOf(i), LatVal)[c], EqVec(RaOf(i), DecOf(i)))

\* Two times and two sources, the cosines differing along both axes.
C4_Witness ==
    /\ topo_cosines # Unset
    /\ lst.shape = <<2>> /\ ra.shape = <<2>>
    /\ Cosine(<<1, 1>>) # Cosine(<<2, 1>>)
    /\ Cosine(<<1, 1>>) # Cosine(<<1, 2>>)
    /\ Cosine(<<1, 2>>) # Cosine(<<2, 1>>)

(***************************************************************************)
(* C5: the cosines of every (time, source) have l^2 + m^2 + n^2 = 1, and   *)
(* for a source above the horizon topocentric_to_az_za does not clip and   *)
(* the n it recomputes (the sine of the altitude pi/2 - za) is the n of    *)
(* equatorial_to_topocentric.                                              *)
(***************************************************************************)
C5_UnitNorm ==
    topo_cosines # Unset =>
        \A i \in Sources :
           LET lsqr == Lsqr(Cosine(i)[2], Cosine(i)[1])
           IN  /\ Add(lsqr, Sq(Cosine(i)[3])) = One
               /\ (~OnRaw /\ az_za # Unset2 /\ Cosine(i)[3].n > 0) =>
                     /\ Lt(lsqr, One)
                     /\ az_za[2].val[i].c = Cosine(i)[3]

C5_Witness ==
    /\ ~OnRaw /\ az_za # Unset2
    /\ \E i \in Sources : /\ Cosine(i)[3].n > 0 /\ Cosine(i)[3] # One
                          /\ Cosine(i)[1].n # 0 /\ Cosine(i)[2].n # 0

C7_ZenithEqualDelays ==
    (~OnRaw /\ topo_cosines # Unset) =>
        \A i \in Sources : IsZenith(i) =>
            /\ az_za # Unset2 => az_za[2].val[i] = Deg0
            /\ delay # Unset =>
                  \A a, b \in Ants : delay.val[<<a>> \o i] = delay.val[<<b>> \o i]
            /\ delay_az_za # Unset =>
                  \A a, b \in Ants :
                     delay_az_za.val[<<a>> \o i] = delay_az_za.val[<<b>> \o i]

(***************************************************************************)
(* C7 amended: for a source at the zenith, za = 0 and both delay functions *)
(* give each antenna its height over C, (scale * antpos[a][2]) / C: the    *)
(* same delay for the antennas of one height, not for any layout.          *)
(***************************************************************************)
C7_ZenithDelayIsHeight ==
    (~OnRaw /\ topo_cosines # Unset) =>
        \A i \in Sources : IsZenith(i) =>
            /\ az_za # Unset2 => az_za[2].val[i] = Deg0
            /\ delay # Unset =>
                  \A a \in Ants :
                     delay.val[<<a>> \o i] = Div(Mul(KVal, AntRow(a)[3]), CNum)
            /\ delay_az_za # Unset =>
                  \A a \in Ants :
                     delay_az_za.val[<<a>> \o i] =
                        Div(Mul(KVal, AntRow(a)[3]), CNum)

\* A source at the zenith, two antennas of different heights, all computed.
C7_Witness ==
    /\ ~OnRaw /\ az_za # Unset2 /\ delay # Unset /\ delay_az_za # Unset
    /\ antpos.shape[1] >= 2 /\ AntRow(1)[3] # AntRow(2)[3]
    /\ \E i \in Sources : IsZenith(i)

(***************************************************************************)
(* C8: every transform yields a real result for every real, correctly      *)
(* shaped input; in particular eq_to_az_za yields defined (za, az) at the  *)
(* zenith and for latitude = +-pi/2.                                       *)
(***************************************************************************)
C8_Total ==
    /\ Finite(topo_cosines) /\ Finite(delay) /\ Finite(delay_az_za)
    /\ FiniteAngles(az_za[1]) /\ FiniteAngles(az_za[2])
    /\ FiniteAngles(za_az[1]) /\ FiniteAngles(za_az[2])

(***************************************************************************)
(* C9: scaling the antenna positions by a constant scales every delay by   *)
(* it, for both delay functions, and each delay is                         *)
(* (antpos[a] . direction) / C.                                            *)
(***************************************************************************)
C9_DelayLinear ==
    /\ delay # Unset =>
          /\ delay = TMul(scale, topocentric_to_delay(topo_cosines, antpos))
          /\ \A a \in Ants, i \in Sources :
                delay.val[<<a>> \o i] =
                   Mul(KVal, Div(Dot3(AntRow(a), Cosine(i)), CNum))
    /\ delay_az_za # Unset =>
          /\ delay_az_za =
                TMul(scale, az_za_to_delay(az_za[1], az_za[2], antpos))
          /\ \A a \in Ants, i \in Idx(az_za[1].shape) :
                delay_az_za.val[<<a>> \o i] =
                   Mul(KVal, Div(Dot3(AntRow(a), Direction(i)), CNum))

\* Two antennas scaled by a constant other than 0 and 1, both delays computed, one
\* of them not zero.
C9_Witness ==
    /\ delay # Unset /\ delay_az_za # Unset
    /\ KVal # One /\ KVal # Zero
    /\ antpos.shape[1] >= 2
    /\ \E i \in DOMAIN delay.val : delay.val[i].n # 0
    /\ \E i \in DOMAIN delay_az_za.val : delay_az_za.val[i].n # 0

(***************************************************************************)
(* C10: for every source above the horizon and off the zenith, at a        *)
(* latitude other than +-pi/2, eq_to_az_za returns (za, az) with za the za *)
(* of topocentric_to_az_za on the cosines and az the negation of its az    *)
(* modulo 2 pi, sources on the meridian included.                          *)
(***************************************************************************)
TopoIdx(i) == BIdx(lst.shape, i) \o BIdx(ra.shape, i)
C10_CrossPath ==
    (~OnRaw /\ az_za # Unset2 /\ za_az # Unset2 /\ LatVal.c.n # 0) =>
        \A i \in Idx(za_az[1].shape) :
           LET j == TopoIdx(i)
           IN  (Cosine(j)[3].n > 0 /\ Cosine(j)[3] # One) =>
                  /\ za_az[1].val[i] = az_za[2].val[j]
                  /\ za_az[2].val[i] = NegAngle(az_za[1].val[j])
====
